---------------------------- MODULE Spec2Model ----------------------------
(***************************************************************************)
(* The indexed-access engine of ScatterGather.cpp (src/unnamed/part_000):  *)
(* gather, gather_out, scatter_, scatter_ (fill) and scatter_add_, each    *)
(* made of the element-type dispatch, the shape validation, the guard for  *)
(* a destination with overlapping indices, the kernel launch and the       *)
(* copy-back.                                                              *)
(*                                                                         *)
(* A tensor is a view [sizes, strides, data]: data is the storage the view *)
(* addresses (address a is data[a + 1]); coordinates are 0-based.          *)
(***************************************************************************)
EXTENDS Integers, Sequences, FiniteSets, TLC

\* ------------------------------------------------------------------ bounds
\* element values are 0..MaxVal
MaxVal == 2
\* largest rank the engine accepts (core/detail/TensorInfo.h is not part of
\* the sources at hand; the value is scaled to the shapes explored here)
MAX_DPCPPTORCH_DIMS == 4

\* ------------------------------------------------------------ element types
\* the types AT_DISPATCH_ALL_TYPES_AND(Bool, ...) instantiates, one of each kind
ScalarTypes == {"Bool", "Int", "Float"}

IS_FLOAT32(scalar_t) == scalar_t = "Float"
IS_INT(scalar_t) == scalar_t = "Int"

\* Scalar::to<scalar_t>(): a bool is v != 0, the numeric types keep a small integer
Scalar_to(scalar_t, v) == IF scalar_t = "Bool" THEN (IF v # 0 THEN 1 ELSE 0) ELSE v

\* values a tensor of the type can hold, within the bound
ValuesOf(scalar_t) == IF scalar_t = "Bool" THEN 0..1 ELSE 0..MaxVal

\* ------------------------------------------------------------------ tensors
RECURSIVE Prod(_)
Prod(s) == IF s = <<>> THEN 1 ELSE Head(s) * Prod(Tail(s))

Numel(t) == Prod(t.sizes)

Dim(t) == Len(t.sizes)

RECURSIVE MaxOf(_)
MaxOf(s) == IF s = <<>> THEN 0
            ELSE IF Head(s) > MaxOf(Tail(s)) THEN Head(s) ELSE MaxOf(Tail(s))

\* the coordinates of a shape
Coords(sizes) ==
  {c \in [1..Len(sizes) -> 0..(MaxOf(sizes) - 1)] :
     \A d \in 1..Len(sizes) : c[d] < sizes[d]}

RECURSIVE Dot(_, _)
Dot(c, strides) ==
  IF Len(c) = 0 THEN 0 ELSE Head(c) * Head(strides) + Dot(Tail(c), Tail(strides))

\* the address of coordinate c in view t
Offset(t, c) == Dot(c, t.strides)

\* row-major strides of a shape
RECURSIVE ContiguousStrides(_)
ContiguousStrides(sizes) ==
  IF sizes = <<>> THEN <<>>
  ELSE <<Prod(Tail(sizes))>> \o ContiguousStrides(Tail(sizes))

\* the value of view t at coordinate c
At(t, c) == t.data[Offset(t, c) + 1]

InBounds(t, c) ==
  /\ Len(c) = Dim(t)
  /\ \A d \in 1..Len(c) : c[d] >= 0 /\ c[d] < t.sizes[d]

\* Tensor::is_contiguous()
RECURSIVE ContigFrom(_, _, _)
ContigFrom(t, d, z) ==
  IF d = 0 THEN TRUE
  ELSE IF t.sizes[d] = 1 THEN ContigFrom(t, d - 1, z)
  ELSE t.strides[d] = z /\ ContigFrom(t, d - 1, z * t.sizes[d])

is_contiguous(t) == Numel(t) = 0 \/ ContigFrom(t, Dim(t), 1)

\* a fresh contiguous tensor of the sizes of t that holds none of its values
CloneFresh(t) ==
  [sizes |-> t.sizes, strides |-> ContiguousStrides(t.sizes),
   data |-> [a \in 1..Numel(t) |-> 0]]

\* a fresh contiguous tensor holding the values of t, coordinate by coordinate
CloneContiguous(t) ==
  LET st == ContiguousStrides(t.sizes)
  IN [sizes |-> t.sizes, strides |-> st,
      data |-> [a \in 1..Numel(t) |->
                  LET c == CHOOSE x \in Coords(t.sizes) : Dot(x, st) = a - 1
                  IN At(t, c)]]

\* c with its component along dim (0-based) replaced by i
Replace(c, dim, i) == [c EXCEPT ![dim + 1] = i]

\* ------------------------------------------------- core/TensorImplUtils.h
TensorImpl_nDimensionLegacyNoScalars(t) == IF Dim(t) = 0 THEN 1 ELSE Dim(t)

TensorImpl_nDimensionLegacyAll(t) ==
  IF Numel(t) = 0 THEN 0 ELSE TensorImpl_nDimensionLegacyNoScalars(t)

TensorImpl_sizeLegacyNoScalars(t, d) == IF Dim(t) = 0 THEN 1 ELSE t.sizes[d + 1]

\* coordinate c as a coordinate of t, where the one element of a tensor of
\* rank 0 is the element 0 of a tensor of rank 1, as the checks have it
CoordNoScalars(c, t) ==
  IF Len(c) = 0 /\ Dim(t) = 1 THEN <<0>>
  ELSE IF Len(c) = 1 /\ Dim(t) = 0 THEN <<>>
  ELSE c

\* ------------------------------------------------ core/detail/IndexUtils.h
\* two distinct coordinates of t reach the same address
maybeOverlappingIndices(t) ==
  \E c1, c2 \in Coords(t.sizes) : c1 # c2 /\ Offset(t, c1) = Offset(t, c2)

\* the largest element count unsigned 32-bit arithmetic addresses (the value
\* is scaled to the shapes explored here)
MaxNarrowElements == 2

\* the element count of t is representable in the narrow index type
canUse32BitIndexMath(t) == Numel(t) <= MaxNarrowElements

\* ------------------------------------------------------------- validation
\* The outcome of the TORCH_CHECKs of an operation, in their order: the first
\* failing check raises (every TORCH_CHECK raises the same error, the
\* InvalidArgument of the taxonomy); "skip" is the return on an empty index.

\* the per-dimension check of Gather: tensor and src agree off the axis
GatherSizesOk(tensor, src, dim) ==
  \A d \in 0..(TensorImpl_nDimensionLegacyNoScalars(tensor) - 1) :
    d # dim =>
      TensorImpl_sizeLegacyNoScalars(tensor, d) = TensorImpl_sizeLegacyNoScalars(src, d)

GatherCheck(tensor, src, dim, index) ==
  IF TensorImpl_nDimensionLegacyNoScalars(index) #
       TensorImpl_nDimensionLegacyNoScalars(src) THEN "InvalidArgument"
  ELSE IF TensorImpl_nDimensionLegacyNoScalars(index) #
            TensorImpl_nDimensionLegacyNoScalars(tensor) THEN "InvalidArgument"
  ELSE IF ~(dim >= 0 /\ dim < TensorImpl_nDimensionLegacyNoScalars(tensor))
    THEN "InvalidArgument"
  ELSE IF TensorImpl_nDimensionLegacyNoScalars(src) #
            TensorImpl_nDimensionLegacyNoScalars(tensor) THEN "InvalidArgument"
  ELSE IF ~GatherSizesOk(tensor, src, dim) THEN "InvalidArgument"
  ELSE IF ~(TensorImpl_nDimensionLegacyNoScalars(tensor) <= MAX_DPCPPTORCH_DIMS)
    THEN "InvalidArgument"
  ELSE "ok"

\* the index held to the size of the output along the axis as well
ScatterSizesOkAxisToo(tensor, dim, index, src) ==
  \A d \in 0..(TensorImpl_nDimensionLegacyNoScalars(tensor) - 1) :
    LET indexSizeD == TensorImpl_sizeLegacyNoScalars(index, d)
    IN /\ indexSizeD <= TensorImpl_sizeLegacyNoScalars(tensor, d)
       /\ indexSizeD <= TensorImpl_sizeLegacyNoScalars(src, d)

\* the per-dimension checks of Scatter and ScatterAdd: the index is no larger
\* than the output off the axis, and no larger than the input in any dimension
ScatterSizesOk(tensor, dim, index, src) ==
  \A d \in 0..(TensorImpl_nDimensionLegacyNoScalars(tensor) - 1) :
    LET indexSizeD == TensorImpl_sizeLegacyNoScalars(index, d)
    IN /\ d # dim => indexSizeD <= TensorImpl_sizeLegacyNoScalars(tensor, d)
       /\ indexSizeD <= TensorImpl_sizeLegacyNoScalars(src, d)

\* the checks of Scatter without the exemption of an empty index from the
\* comparison of ranks
ScatterCheckRankAlways(tensor, dim, index, src) ==
  LET index_ndim_legacy_all == TensorImpl_nDimensionLegacyAll(index)
  IN IF ~(dim >= 0 /\ dim < TensorImpl_nDimensionLegacyNoScalars(tensor))
       THEN "InvalidArgument"
     ELSE IF TensorImpl_nDimensionLegacyNoScalars(index) #
               TensorImpl_nDimensionLegacyNoScalars(src) THEN "InvalidArgument"
     ELSE IF TensorImpl_nDimensionLegacyNoScalars(src) #
               TensorImpl_nDimensionLegacyNoScalars(tensor) THEN "InvalidArgument"
     ELSE IF index_ndim_legacy_all = 0 THEN "skip"
     ELSE IF ~ScatterSizesOk(tensor, dim, index, src) THEN "InvalidArgument"
     ELSE IF ~(Dim(tensor) <= MAX_DPCPPTORCH_DIMS) THEN "InvalidArgument"
     ELSE "ok"

ScatterCheck(tensor, dim, index, src) ==
  LET index_ndim_legacy_all == TensorImpl_nDimensionLegacyAll(index)
  IN IF ~(dim >= 0 /\ dim < TensorImpl_nDimensionLegacyNoScalars(tensor))
       THEN "InvalidArgument"
     ELSE IF ~(index_ndim_legacy_all = 0 \/
               TensorImpl_nDimensionLegacyNoScalars(index) =
                 TensorImpl_nDimensionLegacyNoScalars(src)) THEN "InvalidArgument"
     ELSE IF TensorImpl_nDimensionLegacyNoScalars(src) #
               TensorImpl_nDimensionLegacyNoScalars(tensor) THEN "InvalidArgument"
     ELSE IF index_ndim_legacy_all = 0 THEN "skip"
     ELSE IF ~ScatterSizesOk(tensor, dim, index, src) THEN "InvalidArgument"
     ELSE IF ~(Dim(tensor) <= MAX_DPCPPTORCH_DIMS) THEN "InvalidArgument"
     ELSE "ok"

\* the per-dimension check of ScatterFill
ScatterFillSizesOk(tensor, dim, index) ==
  \A d \in 0..(TensorImpl_nDimensionLegacyNoScalars(tensor) - 1) :
    d # dim =>
      TensorImpl_sizeLegacyNoScalars(index, d) <= TensorImpl_sizeLegacyNoScalars(tensor, d)

ScatterFillCheck(tensor, dim, index) ==
  LET index_ndim_legacy_all == TensorImpl_nDimensionLegacyAll(index)
  IN IF ~(dim >= 0 /\ dim < TensorImpl_nDimensionLegacyNoScalars(tensor))
       THEN "InvalidArgument"
     ELSE IF ~(index_ndim_legacy_all = 0 \/
               TensorImpl_nDimensionLegacyNoScalars(index) =
                 TensorImpl_nDimensionLegacyNoScalars(tensor)) THEN "InvalidArgument"
     ELSE IF index_ndim_legacy_all = 0 THEN "skip"
     ELSE IF ~ScatterFillSizesOk(tensor, dim, index) THEN "InvalidArgument"
     ELSE IF ~(Dim(tensor) <= MAX_DPCPPTORCH_DIMS) THEN "InvalidArgument"
     ELSE "ok"

\* ScatterAdd<scalar_t> for float and int: the checks of Scatter
ScatterAddCheck(tensor, dim, index, src) == ScatterCheck(tensor, dim, index, src)

\* ScatterAdd<scalar_t> for every other type: its only statement is
\* TORCH_CHECK("scatter add only supports float and int type"), whose condition
\* is the string literal itself, a non-null pointer, hence true
StringLiteralCondition == TRUE

ScatterAddUnsupportedCheck ==
  IF ~StringLiteralCondition THEN "UnsupportedType" ELSE "skip"

\* the overload enable_if selects for scalar_t
ScatterAddDispatch(scalar_t, tensor, dim, index, src) ==
  IF IS_FLOAT32(scalar_t) \/ IS_INT(scalar_t)
    THEN ScatterAddCheck(tensor, dim, index, src)
    ELSE ScatterAddUnsupportedCheck

\* ------------------------------------------------------------------ inputs
\* the storage a view of this layout needs
StorageLen(sizes, strides) ==
  IF Prod(sizes) = 0 THEN 0
  ELSE 1 + Dot([d \in 1..Len(sizes) |-> sizes[d] - 1], strides)

\* a tensor of the layout whose storage holds p, p + 1, ... wrapped to the type
Filled(scalar_t, sizes, strides, p) ==
  [sizes |-> sizes, strides |-> strides,
   data |-> [a \in 1..StorageLen(sizes, strides) |->
               (a - 1 + p) % Cardinality(ValuesOf(scalar_t))]]

\* destinations a caller passes: contiguous, transposed, and expanded views
\* (stride 0) in which distinct coordinates share an address
DestLayouts ==
  { [sizes |-> <<2>>, strides |-> <<1>>],
    [sizes |-> <<2>>, strides |-> <<0>>],
    [sizes |-> <<2, 2>>, strides |-> <<2, 1>>],
    [sizes |-> <<2, 2>>, strides |-> <<1, 2>>],
    [sizes |-> <<2, 2>>, strides |-> <<0, 1>>],
    [sizes |-> <<2, 2>>, strides |-> <<1, 1>>],
    [sizes |-> <<3>>, strides |-> <<1>>],
    [sizes |-> <<1, 2, 1>>, strides |-> <<2, 1, 1>>],
    [sizes |-> <<1, 1, 1, 1>>, strides |-> <<1, 1, 1, 1>>],
    [sizes |-> <<1, 1, 1, 1, 1>>, strides |-> <<1, 1, 1, 1, 1>>] }

SrcShapes ==
  { <<1>>, <<2>>, <<3>>, <<1, 2>>, <<2, 1>>, <<2, 2>>, <<1, 2, 1>>, <<1, 3, 1>>,
    <<1, 1, 1, 1>>, <<1, 1, 1, 3>>, <<1, 1, 1, 1, 1>> }

IndexShapes ==
  { <<>>, <<0>>, <<1>>, <<2>>, <<3>>, <<0, 2>>, <<1, 2>>, <<2, 1>>, <<2, 2>>,
    <<1, 2, 1>>, <<1, 1, 1, 1>>, <<1, 1, 1, 1, 1>> }

Dims == {-1, 0, 1, 2}

\* the index tensors of a shape whose values lie in [0, n)
IndexTensors(sizes, n) ==
  { [sizes |-> sizes, strides |-> ContiguousStrides(sizes), data |-> dt] :
      dt \in [1..Prod(sizes) -> 0..(n - 1)] }

\* the size of t along dim when dim names one of its dimensions, otherwise 1
\* (the values of an index are read by no check)
AxisSize(t, dim) == IF dim >= 0 /\ dim < Dim(t) THEN t.sizes[dim + 1] ELSE 1

NoTensor == [sizes |-> <<0>>, strides |-> <<1>>, data |-> <<>>]

\* ------------------------------------------------------------------- state
VARIABLES
  op,          \* the operation called
  scalar_type, \* the element type the call is dispatched on
  dim,         \* the axis
  value,       \* the scalar of scatter (fill)
  dest,        \* the destination tensor the caller passed (gather: its fresh out)
  src,         \* the source tensor
  index,       \* the index tensor
  buf,         \* the contiguous tensor tensor.contiguous() created
  tensor,      \* what the reference `tensor` (the caller's handle) designates
  oldTensor,   \* what the local oldTensor designates
  pc,          \* the position of the call
  err,         \* the error the call raised
  pending,     \* work items of the running kernel not executed yet
  launched,    \* the kernel instantiations launched by the call
  dest0,       \* the destination as it was when the call began
  ub,          \* a work item addressed an element outside a tensor
  follow,      \* whether the call is the gather that follows a fill
  steps        \* the steps of the call so far

vars == <<op, scalar_type, dim, value, dest, src, index, buf, tensor, oldTensor,
          pc, err, pending, launched, dest0, ub, follow, steps>>

Init ==
  /\ op = "none"
  /\ scalar_type = "Int"
  /\ dim = 0
  /\ value = 0
  /\ dest = NoTensor
  /\ src = NoTensor
  /\ index = NoTensor
  /\ buf = NoTensor
  /\ tensor = "dest"
  /\ oldTensor = "undefined"
  /\ pc = "idle"
  /\ err = "none"
  /\ pending = {}
  /\ launched = <<>>
  /\ dest0 = NoTensor
  /\ ub = FALSE
  /\ follow = "no"
  /\ steps = <<>>

\* the outcome of the checks of operation o
CheckOf(o, scalar_t, t, d, ix, s) ==
  CASE o \in {"gather", "gather_out"} -> GatherCheck(t, s, d, ix)
    [] o = "scatter" -> ScatterCheck(t, d, ix, s)
    [] o = "scatter_fill" -> ScatterFillCheck(t, d, ix)
    [] o = "scatter_add" -> ScatterAddDispatch(scalar_t, t, d, ix, s)

\* a failed check that lets the call go on
PcAfterChecksGoOn(outcome) == IF outcome = "skip" THEN "done" ELSE "guard"

\* where the call stands after its checks: a TORCH_CHECK that fails throws
\* and the early return returns, both before the guard
PcAfterChecks(outcome) == IF outcome = "ok" THEN "guard" ELSE "done"

\* The call up to the end of its checks: a failing check raises, an empty
\* index returns, otherwise the call goes on to the guard. Nothing but locals
\* is touched before the last check has passed.
Enter(o, scalar_t, t, s, ix, d, v, f) ==
  LET outcome == CheckOf(o, scalar_t, t, d, ix, s)
  IN /\ op' = o
     /\ scalar_type' = scalar_t
     /\ dim' = d
     /\ value' = v
     /\ dest' = t
     /\ dest0' = t
     /\ src' = s
     /\ index' = ix
     /\ buf' = NoTensor
     /\ tensor' = "dest"
     /\ oldTensor' = "undefined"
     /\ pc' = PcAfterChecks(outcome)
     /\ err' = IF outcome \in {"ok", "skip"} THEN "none" ELSE outcome
     /\ pending' = {}
     /\ launched' = <<>>
     /\ ub' = FALSE
     /\ follow' = f
     /\ steps' = <<>>

\* Tensor& scatter_(self, dim, index, src)
scatter_ ==
  /\ pc = "idle"
  /\ \E scalar_t \in ScalarTypes, lay \in DestLayouts, p \in 0..1,
        d \in Dims, ss \in SrcShapes, is \in IndexShapes :
       LET t == Filled(scalar_t, lay.sizes, lay.strides, p)
           s == Filled(scalar_t, ss, ContiguousStrides(ss), 1)
       IN \E ix \in IndexTensors(is, AxisSize(t, d)) :
            Enter("scatter", scalar_t, t, s, ix, d, 0, "no")

\* Tensor& scatter_(self, dim, index, value)
scatter_fill_ ==
  /\ pc = "idle"
  /\ \E scalar_t \in ScalarTypes, lay \in DestLayouts, p \in 0..1,
        d \in Dims, is \in IndexShapes, v \in 0..MaxVal :
       LET t == Filled(scalar_t, lay.sizes, lay.strides, p)
       IN \E ix \in IndexTensors(is, AxisSize(t, d)) :
            Enter("scatter_fill", scalar_t, t, NoTensor, ix, d, v, "no")

\* Tensor& scatter_add_(self, dim, index, src)
scatter_add_ ==
  /\ pc = "idle"
  /\ \E scalar_t \in ScalarTypes, lay \in DestLayouts, p \in 0..1,
        d \in Dims, ss \in SrcShapes, is \in IndexShapes :
       LET t == Filled(scalar_t, lay.sizes, lay.strides, p)
           s == Filled(scalar_t, ss, ContiguousStrides(ss), 1)
       IN \E ix \in IndexTensors(is, AxisSize(t, d)) :
            Enter("scatter_add", scalar_t, t, s, ix, d, 0, "no")

\* Tensor& gather_out(out, self, dim, index, sparse_grad)
gather_out ==
  /\ pc = "idle"
  /\ \E scalar_t \in ScalarTypes, lay \in DestLayouts, p \in 0..1,
        d \in Dims, ss \in SrcShapes, is \in IndexShapes :
       LET t == Filled(scalar_t, lay.sizes, lay.strides, p)
           s == Filled(scalar_t, ss, ContiguousStrides(ss), 1)
       IN \E ix \in IndexTensors(is, AxisSize(s, d)) :
            Enter("gather_out", scalar_t, t, s, ix, d, 0, "no")

\* an out resized to the sizes of self
GatherOutSelfSizes(scalar_t, self, ix, g) ==
  [sizes |-> self.sizes, strides |-> ContiguousStrides(self.sizes),
   data |-> [a \in 1..Prod(self.sizes) |-> g]]

\* the out of gather: at::empty({0}) resized to the sizes of the index; its
\* elements are uninitialised (any value g)
GatherOut(scalar_t, self, ix, g) ==
  [sizes |-> ix.sizes, strides |-> ContiguousStrides(ix.sizes),
   data |-> [a \in 1..Prod(ix.sizes) |-> g]]

\* Tensor gather(self, dim, index, sparse_grad)
gather ==
  /\ pc = "idle"
  /\ \E scalar_t \in ScalarTypes, d \in Dims, ss \in SrcShapes, is \in IndexShapes :
       LET s == Filled(scalar_t, ss, ContiguousStrides(ss), 1)
       IN \E ix \in IndexTensors(is, AxisSize(s, d)), g \in ValuesOf(scalar_t) :
            Enter("gather", scalar_t, GatherOut(scalar_t, s, ix, g), s, ix, d, 0, "no")

\* the tensor the kernel works on
Working == IF tensor = "buf" THEN buf ELSE dest

\* Tensor oldTensor; if (maybeOverlappingIndices(tensor)) { oldTensor = tensor;
\* tensor = tensor.contiguous(); }  -- contiguous() of a contiguous tensor is
\* the tensor itself, otherwise a new tensor with the same values
Guard ==
  /\ pc = "guard"
  /\ IF maybeOverlappingIndices(dest)
       THEN /\ oldTensor' = "dest"
            /\ IF is_contiguous(dest)
                 THEN /\ UNCHANGED <<buf, tensor>>
                      /\ steps' = steps \o <<"overlap">>
                 ELSE /\ buf' = CloneContiguous(dest)
                      /\ tensor' = "buf"
                      /\ steps' = steps \o <<"overlap", "clone">>
       ELSE /\ UNCHANGED <<oldTensor, buf, tensor>>
            /\ steps' = steps \o <<"no_overlap">>
  /\ pc' = "launch"
  /\ UNCHANGED <<op, scalar_type, dim, value, dest, src, index, err, pending,
                 launched, dest0, ub, follow>>

\* the DIMS argument of RUN: switch (indexInfo.dims)
KernelDims(ix) == IF Dim(ix) \in {1, 2, 3} THEN Dim(ix) ELSE -1

\* a launch whatever the number of elements of the index
LaunchGuardAlways(o, totalElements) == TRUE

\* if (canUse32BitIndexMath(tensor) && canUse32BitIndexMath(src) &&
\* canUse32BitIndexMath(index)); ScatterFill has no src
Narrow(o, t, s, ix) ==
  /\ canUse32BitIndexMath(t)
  /\ o = "scatter_fill" \/ canUse32BitIndexMath(s)
  /\ canUse32BitIndexMath(ix)

\* an instantiation chosen by the rank of the index under either width
RunOfRankOnly(narrow, ix) ==
  [type |-> IF narrow THEN "unsigned int" ELSE "uint64_t", dims |-> KernelDims(ix)]

\* the TYPE and DIMS arguments of RUN: the switch under the narrow width,
\* RUN(uint64_t, -1, scalar_t) under the wide one
RunOf(narrow, ix) ==
  IF narrow THEN [type |-> "unsigned int", dims |-> KernelDims(ix)]
  ELSE [type |-> "uint64_t", dims |-> -1]

\* Gather, Scatter and ScatterAdd launch under if (totalElements > 0);
\* ScatterFill launches unconditionally
LaunchGuard(o, totalElements) == o = "scatter_fill" \/ totalElements > 0

Launch ==
  /\ pc = "launch"
  /\ IF LaunchGuard(op, Numel(index))
       THEN /\ LET r == RunOf(Narrow(op, Working, src, index), index)
               IN launched' = Append(launched, [kernel |-> op, type |-> r.type,
                                                dims |-> r.dims])
            /\ pending' = Coords(index.sizes)
            /\ steps' = Append(steps, "kernel")
            /\ pc' = IF Coords(index.sizes) = {} THEN "copyback" ELSE "kernel"
       ELSE /\ UNCHANGED <<launched, pending, steps>>
            /\ pc' = "copyback"
  /\ UNCHANGED <<op, scalar_type, dim, value, dest, src, index, buf, tensor,
                 oldTensor, err, dest0, ub, follow>>

\* ------------------------------------------------- kernels (ScatterGather.h)
\* One work item of each kernel: the new working tensor, or the tensor as it
\* was, flagged, when the item addresses an element outside a tensor.
Put(t, c, v) == [t EXCEPT !.data[Offset(t, c) + 1] = v]

GatherItem(t, s, ix, d, c) ==
  LET tc == CoordNoScalars(c, t)
      sc == Replace(CoordNoScalars(c, s), d, At(ix, c))
  IN IF InBounds(t, tc) /\ InBounds(s, sc)
       THEN [t |-> Put(t, tc, At(s, sc)), ub |-> FALSE]
       ELSE [t |-> t, ub |-> TRUE]

ScatterItem(t, s, ix, d, c) ==
  LET tc == Replace(CoordNoScalars(c, t), d, At(ix, c))
      sc == CoordNoScalars(c, s)
  IN IF InBounds(t, tc) /\ InBounds(s, sc)
       THEN [t |-> Put(t, tc, At(s, sc)), ub |-> FALSE]
       ELSE [t |-> t, ub |-> TRUE]

ScatterFillItem(t, v, ix, d, c) ==
  LET tc == Replace(CoordNoScalars(c, t), d, At(ix, c))
  IN IF InBounds(t, tc)
       THEN [t |-> Put(t, tc, v), ub |-> FALSE]
       ELSE [t |-> t, ub |-> TRUE]

\* the accumulation of one item is atomic
ScatterAddItem(t, s, ix, d, c) ==
  LET tc == Replace(CoordNoScalars(c, t), d, At(ix, c))
      sc == CoordNoScalars(c, s)
  IN IF InBounds(t, tc) /\ InBounds(s, sc)
       THEN [t |-> Put(t, tc, At(t, tc) + At(s, sc)), ub |-> FALSE]
       ELSE [t |-> t, ub |-> TRUE]

ItemOf(o, t, c) ==
  CASE o \in {"gather", "gather_out"} -> GatherItem(t, src, index, dim, c)
    [] o = "scatter" -> ScatterItem(t, src, index, dim, c)
    [] o = "scatter_fill" ->
         ScatterFillItem(t, Scalar_to(scalar_type, value), index, dim, c)
    [] o = "scatter_add" -> ScatterAddItem(t, src, index, dim, c)

\* any work item not executed yet runs next: the coordinates of the index are
\* processed in no particular order
KernelItem ==
  /\ pc = "kernel"
  /\ \E c \in pending :
       LET r == ItemOf(op, Working, c)
       IN /\ IF tensor = "buf"
               THEN buf' = r.t /\ UNCHANGED dest
               ELSE dest' = r.t /\ UNCHANGED buf
          /\ ub' = (ub \/ r.ub)
          /\ pending' = pending \ {c}
          /\ pc' = IF pending = {c} THEN "copyback" ELSE "kernel"
  /\ UNCHANGED <<op, scalar_type, dim, value, src, index, tensor, oldTensor,
                 err, launched, dest0, follow, steps>>

\* ------------------------------------------------------------- Tensor::copy_
\* the addresses the view t covers
Covered(t) == {Offset(t, c) : c \in Coords(t.sizes)}

\* dst.copy_(from): every coordinate of dst receives the value of from at that
\* coordinate; where several coordinates of dst share an address, one of the
\* writes is the last. The results, one for each choice of the last writers.
CopyResults(dst, from) ==
  LET W == {w \in [Covered(dst) -> Coords(dst.sizes)] :
              \A a \in Covered(dst) : Offset(dst, w[a]) = a}
  IN {[dst EXCEPT !.data = [a \in 1..Len(dst.data) |->
                              IF (a - 1) \in Covered(dst)
                                THEN At(from, w[a - 1]) ELSE dst.data[a]]] : w \in W}

\* if (oldTensor.defined()) oldTensor.copy_(tensor); and the return
CopyBack ==
  /\ pc = "copyback"
  /\ IF oldTensor = "dest"
       THEN /\ dest' \in CopyResults(dest, Working)
            /\ steps' = Append(steps, "copyback")
       ELSE UNCHANGED <<dest, steps>>
  /\ pc' = "done"
  /\ UNCHANGED <<op, scalar_type, dim, value, src, index, buf, tensor, oldTensor,
                 err, pending, launched, dest0, ub, follow>>

\* The caller of a scatter (fill) that returned reads the destination back
\* with gather(dest, dim, index): through the handle the call was given, or
\* through another handle of the tensor it passed.
GatherBack ==
  /\ pc = "done"
  /\ op = "scatter_fill"
  /\ err = "none"
  /\ \E via \in {"handle", "tensor"}, g \in ValuesOf(scalar_type) :
       LET self == IF via = "handle" THEN Working ELSE dest
       IN Enter("gather", scalar_type, GatherOut(scalar_type, self, index, g),
                self, index, dim, value, via)

Next ==
  \/ gather
  \/ gather_out
  \/ scatter_
  \/ scatter_fill_
  \/ scatter_add_
  \/ Guard
  \/ Launch
  \/ KernelItem
  \/ CopyBack
  \/ GatherBack

Spec == Init /\ [][Next]_vars

\* ------------------------------------------------------------------ claims
Returned == pc = "done"

\* the coordinate a work item c of the index addresses
Target(c) ==
  Replace(CoordNoScalars(c, IF op \in {"gather", "gather_out"} THEN src ELSE dest),
          dim, At(index, c))

\* the work items whose target in the destination lies at address a
Hitting(a) == {c \in Coords(index.sizes) : Offset(dest, Target(c)) = a}

RECURSIVE SumSrc(_)
SumSrc(S) == IF S = {} THEN 0
             ELSE LET c == CHOOSE x \in S : TRUE IN At(src, c) + SumSrc(S \ {c})

\* C1: when gather(src, axis, index) returns without error, the returned
\* tensor has the sizes of the index, and at every coordinate c of the index
\* it holds src at c with the axis component replaced by index[c].
C1_GatherResult ==
  (Returned /\ op = "gather" /\ err = "none") =>
    /\ Working.sizes = index.sizes
    /\ \A c \in Coords(index.sizes) : At(Working, c) = At(src, Target(c))

C1_Witness ==
  /\ Returned /\ op = "gather" /\ err = "none" /\ follow = "no"
  /\ Numel(index) = 4
  /\ \E c1, c2 \in Coords(index.sizes) : At(index, c1) # At(index, c2)
  /\ \E c1, c2 \in Coords(index.sizes) : At(dest, c1) # At(dest, c2)

\* C2 as stated: after scatter returns, every coordinate of the destination
\* that is not the target of a coordinate of the index holds the value it
\* held before the call.
C2_UntargetedCoordinatesKept ==
  (Returned /\ op = "scatter" /\ err = "none") =>
    \A q \in Coords(dest.sizes) :
      (\A c \in Coords(index.sizes) : Target(c) # q) => At(dest, q) = At(dest0, q)

\* C2 (amended): after scatter returns, every address of the destination's
\* storage at which no target of a coordinate of the index lies holds the
\* value it held before the call, with and without the working copy.
C2_UntargetedAddressesKept ==
  (Returned /\ op = "scatter" /\ err = "none") =>
    \A a \in 1..Len(dest.data) :
      Hitting(a - 1) = {} => dest.data[a] = dest0.data[a]

C2_Witness ==
  /\ Returned /\ op = "scatter" /\ err = "none"
  /\ tensor = "buf"
  /\ dest # dest0
  /\ \E a \in 1..Len(dest.data) : Hitting(a - 1) = {} /\ dest.data[a] # 0

\* C3: after scatter_add on a float or int destination returns, every address
\* of the destination holds its value before the call plus the sum of src[c]
\* over the coordinates c of the index whose target lies at that address, in
\* whatever order the work items ran.
C3_ScatterAddSums ==
  (Returned /\ op = "scatter_add" /\ err = "none" /\
   (IS_FLOAT32(scalar_type) \/ IS_INT(scalar_type))) =>
    \A a \in 1..Len(dest.data) :
      dest.data[a] = dest0.data[a] + SumSrc(Hitting(a - 1))

\* C4: scatter_add on a destination whose element type is neither float nor
\* int ends with the error UnsupportedType.
C4_UnsupportedTypeRaised ==
  (Returned /\ op = "scatter_add" /\
   ~(IS_FLOAT32(scalar_type) \/ IS_INT(scalar_type))) => err = "UnsupportedType"

ScatterOps == {"scatter", "scatter_fill", "scatter_add"}

GatherOps == {"gather", "gather_out"}

AxisInRange == dim >= 0 /\ dim < Dim(dest)

\* the call neither raised, nor ran the guard or a kernel, and returned the
\* destination as it was
ReturnedUntouched ==
  /\ err = "none"
  /\ launched = <<>>
  /\ steps = <<>>
  /\ tensor = "dest"
  /\ dest = dest0

\* C5 as stated: scatter, scatter_fill and scatter_add on an index of zero
\* elements raise no error, run no kernel and return the destination
\* unchanged, whatever else the call was given.
C5_EmptyIndexNeverRaises ==
  (Returned /\ op \in ScatterOps /\ Numel(index) = 0) => ReturnedUntouched

\* C5 (amended): scatter, scatter_fill and scatter_add on an index of zero
\* elements, of whatever rank and shape, raise no error, run no kernel and
\* return the destination unchanged, provided the axis lies in
\* [0, rank(dest)) and, for scatter and scatter_add, rank(src) = rank(dest).
C5_EmptyIndexNoOp ==
  (Returned /\ op \in ScatterOps /\ Numel(index) = 0 /\ AxisInRange /\
   (op \in {"scatter", "scatter_add"} => Dim(src) = Dim(dest))) => ReturnedUntouched

C5_Witness ==
  /\ Returned /\ op = "scatter" /\ Numel(index) = 0 /\ AxisInRange
  /\ Dim(src) = Dim(dest)
  /\ Dim(index) # Dim(dest)
  /\ maybeOverlappingIndices(dest)
  /\ ReturnedUntouched

\* C6: a call of any of the operations, on any element type, whose axis lies
\* outside [0, rank(dest)) ends with the error InvalidArgument.
C6_AxisOutOfRangeRaises ==
  (Returned /\ op # "none" /\ ~AxisInRange) => err = "InvalidArgument"

\* C7: a call that raised InvalidArgument or UnsupportedType created no
\* buffer, ran neither the guard nor a kernel, and left the destination and
\* the caller's handle as they were.
C7_FailureTouchesNothing ==
  (err # "none") =>
    /\ buf = NoTensor
    /\ launched = <<>>
    /\ steps = <<>>
    /\ tensor = "dest"
    /\ dest = dest0

C7_Witness ==
  /\ err = "InvalidArgument"
  /\ AxisInRange
  /\ Numel(index) > 0
  /\ maybeOverlappingIndices(dest)

\* the ranks of index, destination and source agree, and so do their sizes in
\* every dimension other than the axis
GatherShapesAgree ==
  /\ Dim(index) = Dim(dest)
  /\ Dim(src) = Dim(dest)
  /\ \A d \in 1..Dim(dest) :
       d # dim + 1 => index.sizes[d] = dest.sizes[d] /\ src.sizes[d] = dest.sizes[d]

\* C8: gather and gather_out end with InvalidArgument, and launch no kernel,
\* unless index, destination and source have the same rank and the same size
\* in every dimension other than the axis.
C8_GatherRejectsMismatch ==
  (op \in GatherOps /\ pc # "idle" /\ ~GatherShapesAgree) =>
    /\ launched = <<>>
    /\ Returned => err = "InvalidArgument"

\* the descriptor C9 speaks of, the sizes along the axis left open
C9_OffAxisOnly ==
  /\ op \in {"scatter", "scatter_add"}
  /\ pc # "idle"
  /\ Numel(index) > 0
  /\ AxisInRange
  /\ Dim(index) = Dim(src) /\ Dim(src) = Dim(dest)
  /\ Dim(dest) <= MAX_DPCPPTORCH_DIMS
  /\ \A d \in 1..Dim(dest) :
       d # dim + 1 => index.sizes[d] <= dest.sizes[d] /\ index.sizes[d] <= src.sizes[d]

\* C9 as stated: such a descriptor passes validation whatever the sizes of
\* index, src and dest along the axis.
C9_AxisSizesFree == C9_OffAxisOnly => err = "none"

\* C9 (amended): such a descriptor passes validation if also
\* size(index, axis) <= size(src, axis), whatever the sizes of index and dest
\* along the axis; the index may be larger than the destination there.
C9_AxisBoundedBySrcOnly ==
  (C9_OffAxisOnly /\ index.sizes[dim + 1] <= src.sizes[dim + 1]) => err = "none"

C9_Witness ==
  /\ C9_OffAxisOnly
  /\ index.sizes[dim + 1] > dest.sizes[dim + 1]
  /\ Returned /\ err = "none" /\ launched # <<>>

\* C10: a gather that reads the destination of a scatter (fill) back, with
\* the axis and index of the fill, yields the fill value, converted to the
\* element type, at every coordinate of the index.
C10_FillThenGather ==
  (Returned /\ op = "gather" /\ follow # "no" /\ err = "none") =>
    \A c \in Coords(index.sizes) : At(Working, c) = Scalar_to(scalar_type, value)

\* the call passed every check and was not ended by the empty-index return
PassedValidation ==
  op # "none" /\ CheckOf(op, scalar_type, dest0, dim, index, src) = "ok"

IsPrefix(s, t) == Len(s) <= Len(t) /\ s = SubSeq(t, 1, Len(s))

\* the steps of a call whose overlap test gave overlap and whose kernel is
\* launched iff runs, in their order
StepsOf(overlap, runs) ==
  (IF overlap THEN <<"overlap", "clone">> ELSE <<"no_overlap">>)
    \o (IF runs THEN <<"kernel">> ELSE <<>>)
    \o (IF overlap THEN <<"copyback">> ELSE <<>>)

Stepped(x) == \E i \in 1..Len(steps) : steps[i] = x

\* The steps taken so far are the first of the steps expected, all of them
\* once the call has returned, and the working destination is what they say:
\* a contiguous value-copy of the destination from the clone on, the
\* destination itself otherwise; the destination is not written before the
\* copy-back under a clone, and the copy-back writes the buffer into it.
C11_StepsFollow(expected) ==
  /\ IsPrefix(steps, expected)
  /\ Returned => steps = expected
  /\ pc \in {"kernel", "copyback"} => Len(steps) >= 1
  /\ Stepped("clone") =>
       /\ tensor = "buf" /\ oldTensor = "dest"
       /\ is_contiguous(buf) /\ buf.sizes = dest0.sizes
       /\ pc = "launch" => \A c \in Coords(dest0.sizes) : At(buf, c) = At(dest0, c)
       /\ ~Stepped("copyback") => dest = dest0
  /\ Stepped("copyback") =>
       /\ \A c \in Coords(dest.sizes) :
            \E c2 \in Coords(dest.sizes) :
              Offset(dest, c2) = Offset(dest, c) /\ At(dest, c) = At(buf, c2)
       /\ \A a \in 1..Len(dest.data) :
            (a - 1) \notin Covered(dest) => dest.data[a] = dest0.data[a]
  /\ Stepped("no_overlap") =>
       tensor = "dest" /\ oldTensor = "undefined" /\ buf = NoTensor

\* C11 as stated: in every call that passes validation the overlap test is
\* evaluated; iff it is true one contiguous buffer holding a value-copy of
\* the destination becomes the working destination; the kernel runs; then,
\* iff a buffer was created, it is copied back into the destination.
C11_KernelAlwaysRuns ==
  PassedValidation => C11_StepsFollow(StepsOf(maybeOverlappingIndices(dest0), TRUE))

\* C11 (amended): the same steps in the same order, except that the kernel
\* step is left out when the index has no element (a gather with an empty
\* index launches no kernel; the clone and the copy-back still happen).
C11_GuardStepsInOrder ==
  PassedValidation =>
    C11_StepsFollow(StepsOf(maybeOverlappingIndices(dest0), Numel(index) > 0))

C11_Witness ==
  /\ Returned /\ PassedValidation
  /\ steps = <<"overlap", "clone", "kernel", "copyback">>
  /\ dest # dest0
  /\ buf # CloneContiguous(dest0)

\* C12: after any of the four operations returns, the caller's destination
\* handle, which is also the tensor returned, designates the tensor that was
\* passed in and not the buffer of the guard, also in calls where the guard
\* substituted a working copy.
C12_HandleKeepsOriginal ==
  (Returned /\ op # "none") => tensor = "dest"

\* the DIMS of an instantiation launched follow the rank of the index: the
\* fixed rank 1, 2 or 3 exactly for an index of that rank, the generic -1
\* exactly for an index of rank 0 or of a rank above 3
DimsFollowRank(k) ==
  /\ k.dims \in {1, 2, 3, -1}
  /\ k.dims \in {1, 2, 3} <=> Dim(index) \in {1, 2, 3}
  /\ k.dims \in {1, 2, 3} => k.dims = Dim(index)
  /\ k.dims = -1 <=> (Dim(index) = 0 \/ Dim(index) > 3)

\* C13 as stated: in every call that runs a kernel the fixed-rank
\* instantiation is selected exactly when the rank of the index is 1, 2 or 3
\* and the generic one exactly when it is 0 or above 3, under the narrow and
\* under the wide address width.
C13_RankSelectsUnderEitherWidth ==
  \A i \in 1..Len(launched) :
    /\ launched[i].type \in {"unsigned int", "uint64_t"}
    /\ DimsFollowRank(launched[i])

\* C13 (amended): under the narrow width the instantiation follows the rank
\* of the index as stated; under the wide width the generic instantiation is
\* selected whatever the rank of the index.
C13_RankSelectsUnderNarrowOnly ==
  \A i \in 1..Len(launched) :
    /\ launched[i].type \in {"unsigned int", "uint64_t"}
    /\ launched[i].type = "unsigned int" => DimsFollowRank(launched[i])
    /\ launched[i].type = "uint64_t" => launched[i].dims = -1

C13_Witness ==
  /\ Returned /\ err = "none" /\ ~ub
  /\ Len(launched) = 1
  /\ launched[1].type = "uint64_t" /\ launched[1].dims = -1
  /\ Dim(index) = 2
  /\ dest # dest0

====
